---- MODULE Spec2Model ----
(***************************************************************************)
(* Model of updated_scrape.py: URL canonicalisation, domain scoping, link  *)
(* classification, the breadth-first crawl (bfs_crawl), the concurrent     *)
(* download stage (download_files / save_file_with_metadata) and the       *)
(* manual upsert (add_or_update_file_manually).                            *)
(*                                                                         *)
(* A Python str is modelled as a sequence of symbols.  The symbols are the *)
(* delimiters ":", "/", ".", "#", "?" and "=" and a few multi-letter       *)
(* tokens ("https", "com", "pdf", ...) none of which contains a delimiter, *)
(* so that find, startswith, endswith and slicing on the sequence are the  *)
(* str operations of the source.                                           *)
(***************************************************************************)
EXTENDS Integers, Sequences, FiniteSets, TLC

(* ---------------------------------------------------------------------- *)
(* str helpers                                                            *)
(* ---------------------------------------------------------------------- *)

\* the value of the only element of a singleton set; {f(v) : v \in {e}}
\* evaluates e once and names its value v
The(S) == CHOOSE x \in S : TRUE

\* str.startswith
StartsWith(s, p) == Len(p) <= Len(s) /\ SubSeq(s, 1, Len(p)) = p

\* str.endswith
EndsWith(s, p) == Len(p) <= Len(s) /\ SubSeq(s, Len(s) - Len(p) + 1, Len(s)) = p

\* s[i:] with a 1-based first index
From(s, i) == SubSeq(s, i, Len(s))

\* 1-based index of the first symbol of s that is in cs, 0 when there is none
FindAny(s, cs) ==
    IF \E i \in 1..Len(s) : s[i] \in cs
    THEN CHOOSE i \in 1..Len(s) : s[i] \in cs /\ \A j \in 1..(i - 1) : s[j] \notin cs
    ELSE 0

\* 1-based index of the last symbol of s that is in cs, 0 when there is none
RFindAny(s, cs) ==
    IF \E i \in 1..Len(s) : s[i] \in cs
    THEN CHOOSE i \in 1..Len(s) : s[i] \in cs /\ \A j \in (i + 1)..Len(s) : s[j] \notin cs
    ELSE 0

\* str.lower on one symbol: the only upper-case symbols of the alphabet
LowerSym(c) ==
    IF c = "PDF" THEN "pdf"
    ELSE IF c = "PNG" THEN "png"
    ELSE c

\* str.lower
lower(s) == [i \in 1..Len(s) |-> LowerSym(s[i])]

(* ---------------------------------------------------------------------- *)
(* urllib.parse                                                           *)
(* ---------------------------------------------------------------------- *)

\* the symbols made of letters only
Letters == {"https", "http", "mailto", "a", "b", "com", "org", "docs", "rs",
               "x", "y", "d", "e", "f", "get", "pdf", "png", "zip", "PDF", "PNG"}

\* urllib.parse.scheme_chars, restricted to the alphabet
scheme_chars == Letters \cup {"."}

\* urllib.parse.uses_netloc, restricted to the schemes of the alphabet
uses_netloc == {"https", "http"}

\* s.split(c, 1) as the pair <<before, after>>; <<s, "">> when c is not in s
Split1(s, c) ==
    LET i == FindAny(s, {c})
    IN  IF i = 0 THEN <<s, << >> >> ELSE <<SubSeq(s, 1, i - 1), From(s, i + 1)>>

\* urlsplit, first step: the scheme is what precedes the first ":" when it
\* starts with a letter and is made of scheme characters; it is lower-cased
split_scheme(url) ==
    LET i == FindAny(url, {":"})
    IN  IF i > 1 /\ url[1] \in Letters /\ \A j \in 1..(i - 1) : url[j] \in scheme_chars
        THEN <<lower(SubSeq(url, 1, i - 1)), From(url, i + 1)>>
        ELSE << << >>, url>>

\* urlsplit, second step (_splitnetloc): the netloc follows "//" and ends
\* before the first of "/", "?" and "#"
split_netloc(url) ==
    LET d == FindAny(From(url, 3), {"/", "?", "#"})
    IN  IF ~StartsWith(url, <<"/", "/">>) THEN << << >>, url>>
        ELSE IF d = 0 THEN <<From(url, 3), << >> >>
        ELSE <<SubSeq(url, 3, d + 1), From(url, d + 2)>>

\* urlsplit, last step: the query follows the first "?"
parse_query(scheme, netloc, url, fragment) ==
    The({[scheme |-> scheme, netloc |-> netloc, path |-> qs[1], query |-> qs[2],
          fragment |-> fragment] : qs \in {Split1(url, "?")}})

\* urlsplit, third step: the fragment follows the first "#"
parse_fragment(scheme, netloc, url) ==
    The({parse_query(scheme, netloc, fs[1], fs[2]) : fs \in {Split1(url, "#")}})

parse_netloc(scheme, url) ==
    The({parse_fragment(scheme, ns[1], ns[2]) : ns \in {split_netloc(url)}})

parse_scheme(url) ==
    The({parse_netloc(ss[1], ss[2]) : ss \in {split_scheme(url)}})

\* urllib.parse.urlparse (the alphabet has no ";": params is always empty
\* and is left out of the result)
urlparse(url) == The({parse_scheme(u) : u \in {url}})

\* urlunsplit on the parts p
unsplit(p) ==
    LET u0 == p.path
        u1 == IF p.netloc # << >>
                 \/ (p.scheme \in {<<s>> : s \in uses_netloc}
                     /\ ~StartsWith(u0, <<"/", "/">>))
              THEN <<"/", "/">> \o p.netloc
                   \o (IF u0 # << >> /\ u0[1] # "/" THEN <<"/">> \o u0 ELSE u0)
              ELSE u0
        u2 == IF p.scheme # << >> THEN p.scheme \o <<":">> \o u1 ELSE u1
        u3 == IF p.query # << >> THEN u2 \o <<"?">> \o p.query ELSE u2
    IN  IF p.fragment # << >> THEN u3 \o <<"#">> \o p.fragment ELSE u3

\* urllib.parse.urlunparse
urlunparse(parts) == The({unsplit(p) : p \in {parts}})

\* urljoin(base, url) for an href the browser has already made absolute:
\* the href is re-assembled from its parts; an href of another scheme without
\* a netloc (mailto:) is returned as it is.
urljoin(base, url) ==
    The({IF p.netloc # << >> THEN urlunparse(p) ELSE url : p \in {urlparse(url)}})

\* os.path.basename
basename(path) ==
    LET i == RFindAny(path, {"/"}) IN IF i = 0 THEN path ELSE From(path, i + 1)

(* ---------------------------------------------------------------------- *)
(* Utilities                                                              *)
(* ---------------------------------------------------------------------- *)

\* "." followed by one extension symbol
Ext(e) == <<".", e>>

\* the extensions list of scrape_and_download
DefaultExtensions ==
    {Ext("pdf"), Ext("docx"), Ext("doc"), Ext("txt"), Ext("xlsx"), Ext("xls"),
     Ext("csv"), Ext("ppt"), Ext("pptx")}

\* the excluded_extensions tuple of is_excluded_file
excluded_extensions ==
    {Ext("png"), Ext("gif"), Ext("jpg"), Ext("jpeg"), Ext("bmp"), Ext("webp"),
     Ext("svg"), Ext("ico"), Ext("tiff"),
     Ext("zip"), Ext("tar"), Ext("gz"), Ext("rar"), Ext("7z"), Ext("exe"),
     Ext("dmg"), Ext("pkg"), Ext("deb"), Ext("rpm"),
     Ext("py"), Ext("java"), Ext("js"), Ext("c"), Ext("cpp"), Ext("h"),
     Ext("cs"), Ext("php"), Ext("rb"), Ext("go"), Ext("rs"),
     Ext("md"), Ext("db"), Ext("sqlite"), Ext("so"), Ext("dll")}

\* the common_extensions list of get_extension_from_url, in its order
common_extensions ==
    <<Ext("pdf"), Ext("docx"), Ext("xlsx"), Ext("csv"), Ext("txt"), Ext("pptx")>>

is_valid_file_extension(url, extensions_tuple) ==
    \E low \in {lower(url)} : \E ext \in extensions_tuple : EndsWith(low, ext)

is_same_domain(base_url, url) ==
    \E base_domain \in {urlparse(base_url).netloc}, url_domain \in {urlparse(url).netloc} :
        \/ base_domain = url_domain
        \/ EndsWith(url_domain, <<".">> \o base_domain)
        \/ EndsWith(base_domain, <<".">> \o url_domain)

clean_url(url) ==
    The({ IF EndsWith(parsed.path, <<"/">>) /\ Len(parsed.path) > 1
          THEN urlunparse([parsed EXCEPT !.fragment = << >>,
                                         !.path = SubSeq(parsed.path, 1, Len(parsed.path) - 1)])
          ELSE urlunparse([parsed EXCEPT !.fragment = << >>])
          : parsed \in {urlparse(url)} })

is_excluded_file(url) ==
    \E low \in {lower(url)} : \E ext \in excluded_extensions : EndsWith(low, ext)

get_extension_from_url(url) ==
    LET hits == {i \in 1..Len(common_extensions) : EndsWith(lower(url), common_extensions[i])}
    IN  IF hits # {}
        THEN common_extensions[CHOOSE i \in hits : \A j \in hits : i <= j]
        ELSE Ext("html")

(* ---------------------------------------------------------------------- *)
(* Inputs: URLs, quotas, extension lists and sites                        *)
(* ---------------------------------------------------------------------- *)

\* largest finite page or file quota tried
MaxQuota == 1

\* float('inf'), the default of max_pages and max_files
Inf == -1

Quotas == (0..MaxQuota) \cup {Inf}

\* n < q and n >= q for a quota q that may be float('inf')
Lt(n, q) == q = Inf \/ n < q
Ge(n, q) == ~Lt(n, q)

HostA    == <<"a", ".", "com">>
HostDocs == <<"docs", ".", "a", ".", "com">>
HostB    == <<"b", ".", "org">>

Https(host, rest) == <<"https", ":", "/", "/">> \o host \o rest

u_root0 == Https(HostA, << >>)                          \* https://a.com
u_root  == Https(HostA, <<"/">>)                        \* https://a.com/
u_x     == Https(HostA, <<"/", "x">>)                   \* https://a.com/x
u_x1    == Https(HostA, <<"/", "x", "/">>)              \* https://a.com/x/
u_x2    == Https(HostA, <<"/", "x", "/", "/">>)         \* https://a.com/x//
u_x3    == Https(HostA, <<"/", "x", "/", "/", "/">>)    \* https://a.com/x///
u_xf    == Https(HostA, <<"/", "x", "#", "f">>)         \* https://a.com/x#f
u_y     == Https(HostA, <<"/", "y">>)                   \* https://a.com/y
f_d     == Https(HostA, <<"/", "d", ".", "pdf">>)       \* https://a.com/d.pdf
f_e     == Https(HostA, <<"/", "e", ".", "pdf">>)       \* https://a.com/e.pdf
f_xd    == Https(HostA, <<"/", "x", "/", "d", ".", "pdf">>)  \* https://a.com/x/d.pdf
f_up    == Https(HostA, <<"/", "y", ".", "PDF">>)       \* https://a.com/y.PDF
f_q     == Https(HostA, <<"/", "get", "?", "d", ".", "pdf">>) \* https://a.com/get?d.pdf
f_q2    == Https(HostA, <<"/", "get", "?", "e", ".", "pdf">>) \* https://a.com/get?e.pdf
f_docs  == Https(HostDocs, <<"/", "d", ".", "pdf">>)    \* https://docs.a.com/d.pdf
f_b     == Https(HostB, <<"/", "d", ".", "pdf">>)       \* https://b.org/d.pdf
i_png   == Https(HostA, <<"/", "e", ".", "png">>)       \* https://a.com/e.png
z_zip   == Https(HostA, <<"/", "e", ".", "zip">>)       \* https://a.com/e.zip
p_docs  == Https(HostDocs, <<"/", "x">>)                \* https://docs.a.com/x
p_b     == Https(HostB, <<"/", "x">>)                   \* https://b.org/x
m_x     == <<"mailto", ":", "x">>                       \* mailto:x

\* the seeds tried: a host-only seed, a seed with a trailing slash and a seed
\* that is_excluded_file excludes
Seeds == {u_root0, u_x1, i_png}

\* the extension lists tried: the one of scrape_and_download, and the same
\* with an extension of the exclusion list added
ExtensionLists == {DefaultExtensions, DefaultExtensions \cup {Ext("zip")}}

\* path without its trailing slashes
StripSlashes(path) ==
    LET keep == {i \in 1..Len(path) : path[i] # "/"}
    IN  IF keep = {} THEN << >>
        ELSE SubSeq(path, 1, CHOOSE i \in keep : \A j \in keep : j <= i)

\* The web site is the page renderer's input.  It serves one document per
\* path, whatever the trailing slashes and the fragment of the URL asked for;
\* a site gives the hrefs of the anchors of the documents at "", "/x" and "/y".
Site(root, x, y) == [root |-> root, x |-> x, y |-> y]

Sites ==
    { \* the end-to-end scenario: the seed links to /x and d.pdf, /x links back
      \* to the seed and to e.pdf
      Site({u_x, f_d}, {u_root0, f_e}, {}),
      \* the same, the link back being the href a browser reports for the root
      Site({u_x, f_d}, {u_root, f_e}, {}),
      \* trailing slashes and fragments
      Site({u_x3, u_x, u_xf}, {u_x1, u_y, f_docs}, {u_x2}),
      \* links of every class
      Site({i_png, z_zip, f_b, p_docs, p_b, m_x, u_y}, {}, {u_x, f_b, f_up}),
      \* two files with the same basename, two files without basename
      Site({f_d, f_xd}, {f_q, f_q2}, {}),
      \* /x is first linked with trailing slashes, and without from /y only
      Site({u_x3}, {u_x2, u_y}, {u_root, u_x}) }

\* driver.find_elements(By.TAG_NAME, "a") of the document served for url
Anchors(st, url) ==
    The({ IF p.netloc # HostA THEN {}
          ELSE IF StripSlashes(p.path) = << >> THEN st.root
          ELSE IF StripSlashes(p.path) = <<"/", "x">> THEN st.x
          ELSE IF StripSlashes(p.path) = <<"/", "y">> THEN st.y
          ELSE {} : p \in {urlparse(url)} })

\* the outcomes of driver.get and WebDriverWait: the body element is found, a
\* TimeoutException is raised, or another exception is raised
RenderOutcomes == {"ok", "timeout", "error"}

\* the sequences that enumerate the set S without repetition
Orders(S) == {s \in [1..Cardinality(S) -> S] : \A e \in S : \E i \in DOMAIN s : s[i] = e}

(* ---------------------------------------------------------------------- *)
(* Scraping                                                               *)
(* ---------------------------------------------------------------------- *)

\* base_url made of the netloc of another site than the one of the start URL
base_url_of_other_site(start) ==
    The({p.scheme \o <<":", "/", "/">> \o HostB : p \in {urlparse(start)}})

\* base_url of bfs_crawl: scheme + "://" + netloc of the start URL
base_url_of(start) ==
    The({p.scheme \o <<":", "/", "/">> \o p.netloc : p \in {urlparse(start)}})

\* classify without its first test: the prefix test sees the excluded links
classify_no_exclusion(cleaned_url, base_url, exts, old_visited_pages, old_file_links) ==
    IF cleaned_url \in old_visited_pages \/ cleaned_url \in old_file_links
    THEN "Seen"
    ELSE IF ~is_same_domain(base_url, cleaned_url)
    THEN "OutOfDomain"
    ELSE IF is_valid_file_extension(cleaned_url, exts)
    THEN "File"
    ELSE IF StartsWith(cleaned_url, base_url)
    THEN "Page"
    ELSE "NoPrefix"

\* What the loop body of scrape_page_for_links_and_files does with one
\* cleaned link: "File" and "Page" add it to file_links and page_links, the
\* other values are the four ways the link is dropped.
classify(cleaned_url, base_url, exts, old_visited_pages, old_file_links) ==
    IF is_excluded_file(cleaned_url) /\ ~is_valid_file_extension(cleaned_url, exts)
    THEN "Excluded"
    ELSE IF cleaned_url \in old_visited_pages \/ cleaned_url \in old_file_links
    THEN "Seen"
    ELSE IF ~is_same_domain(base_url, cleaned_url)
    THEN "OutOfDomain"
    ELSE IF is_valid_file_extension(cleaned_url, exts)
    THEN "File"
    ELSE IF StartsWith(cleaned_url, base_url)
    THEN "Page"
    ELSE "NoPrefix"

\* scrape_page_for_links_and_files without its except clauses' effect: the
\* links are extracted whatever the outcome of the page load
scrape_despite_failure(url, base_url, exts, old_visited_pages, old_file_links, hrefs, outcome) ==
    The({ [file_links |-> {c \in DOMAIN cls : cls[c] = "File"},
           page_links |-> {c \in DOMAIN cls : cls[c] = "Page"}]
          : cls \in {[c \in {clean_url(urljoin(url, href)) : href \in hrefs} |->
                       classify(c, base_url, exts, old_visited_pages, old_file_links)]} })

\* scrape_page_for_links_and_files: hrefs are the href attributes of the
\* anchors found (an anchor without href, or whose processing raises, is
\* skipped by the loop and is the same as an anchor that is not there);
\* outcome is the outcome of loading the page.
scrape_page_for_links_and_files(url, base_url, exts, old_visited_pages, old_file_links, hrefs, outcome) ==
    IF outcome = "ok"
    THEN The({ [file_links |-> {c \in DOMAIN cls : cls[c] = "File"},
                page_links |-> {c \in DOMAIN cls : cls[c] = "Page"}]
               : cls \in {[c \in {clean_url(urljoin(url, href)) : href \in hrefs} |->
                            classify(c, base_url, exts, old_visited_pages, old_file_links)]} })
    ELSE [file_links |-> {}, page_links |-> {}]

(* ---------------------------------------------------------------------- *)
(* Metadata file and download attempts                                    *)
(* ---------------------------------------------------------------------- *)

\* number of characters of a symbol
CharLen(c) ==
    CASE c \in {"a", "b", "d", "e", "f", "x", "y", ":", "/", ".", "#", "?", "=", "1", "2", "3", "4"} -> 1
      [] c \in {"rs"} -> 2
      [] c \in {"com", "org", "pdf", "png", "zip", "get", "PDF", "PNG"} -> 3
      [] c \in {"http", "docs", "html"} -> 4
      [] c \in {"https"} -> 5
      [] c \in {"mailto"} -> 6
      [] c \in {"manual_"} -> 7
      [] c \in {"document_", "documents"} -> 9
      [] OTHER -> 10     \* str(int(time.time()))

\* len(s)
RECURSIVE StrLen(_)
StrLen(s) == IF s = << >> THEN 0 ELSE CharLen(Head(s)) + StrLen(Tail(s))

\* len(datetime.now().isoformat()), microseconds included
TsLen == 26

\* number of characters json.dump(metadata, f, indent=2) writes for one record
JsonItemLen(key, rec) ==
    (2 + StrLen(key) + 2 + 2)                               \* '  "key": '
    + 2 + (4 + 7 + StrLen(rec.url) + 2) + 2                 \* '{', url line
    + (4 + 18 + 2)                                          \* '"update_history": ['
    + Len(rec.update_history) * (6 + TsLen + 2)             \* one line per timestamp
    + 2 * (Len(rec.update_history) - 1)                     \* the commas between them
    + (1 + 4 + 1) + (1 + 2 + 1)                             \* ']' and '}'

RECURSIVE JsonItemsLen(_, _)
JsonItemsLen(metadata, keys) ==
    IF keys = {} THEN 0
    ELSE \* any key: the sum does not depend on the order
         The({JsonItemLen(k, metadata[k]) + JsonItemsLen(metadata, keys \ {k})
              : k \in {CHOOSE k \in keys : TRUE}})

\* number of characters json.dump(metadata, f, indent=2) writes
JsonLen(metadata) ==
    IF DOMAIN metadata = {} THEN 2
    ELSE 2 + JsonItemsLen(metadata, DOMAIN metadata)
           + 2 * (Cardinality(DOMAIN metadata) - 1) + 2

\* documents/documents_metadata.json: whether it exists, whether its bytes are
\* the JSON text of data, and its size
NoFile == [exists |-> FALSE, valid |-> FALSE, data |-> << >>, len |-> 0]

\* load_metadata: "raise" stands for the exception of json.load
load_metadata(file) ==
    IF ~file.exists THEN [raise |-> FALSE, metadata |-> << >>]
    ELSE IF file.valid THEN [raise |-> FALSE, metadata |-> file.data]
    ELSE [raise |-> TRUE, metadata |-> << >>]

\* save_metadata, open(METADATA_PATH, 'w'): the file is created or truncated
save_metadata_open(file) ==
    [exists |-> TRUE, valid |-> FALSE, data |-> << >>, len |-> 0]

\* save_metadata, json.dump and close: the text is written at offset 0 of the
\* handle; bytes that another handle wrote beyond its end since the truncation
\* stay in the file, which is then not JSON
save_metadata_dump(file, metadata) ==
    IF file.len > JsonLen(metadata)
    THEN [exists |-> TRUE, valid |-> FALSE, data |-> << >>, len |-> file.len]
    ELSE [exists |-> TRUE, valid |-> TRUE, data |-> metadata, len |-> JsonLen(metadata)]

\* upsert that starts the history again instead of appending to it
upsert_overwrite(metadata, file_key, url, now) ==
    [k \in DOMAIN metadata \cup {file_key} |->
        IF k = file_key THEN [url |-> url, update_history |-> <<now>>]
        ELSE metadata[k]]

\* lines 48-55 of save_file_with_metadata on the loaded metadata
upsert(metadata, file_key, url, now) ==
    IF file_key \notin DOMAIN metadata
    THEN [k \in DOMAIN metadata \cup {file_key} |->
            IF k = file_key THEN [url |-> url, update_history |-> <<now>>]
            ELSE metadata[k]]
    ELSE [metadata EXCEPT ![file_key].update_history = Append(@, now)]

\* os.path.join("documents", filename)
save_path_of(filename) == <<"documents", "/">> \o filename

\* the filename download_files derives for url (lines 179-181)
download_filename(url, successes) ==
    The({ IF filename = << >> \/ \A i \in DOMAIN filename : filename[i] # "."
          THEN <<"document_", ToString(successes + 1)>> \o get_extension_from_url(url)
          ELSE filename
          : filename \in {basename(urlparse(url).path)} })

\* int(time.time()) at the start of the model's time
Epoch == 1700000000

\* the filename add_or_update_file_manually derives for file_url (lines 287-289)
manual_filename(file_url, seconds) ==
    The({ IF filename = << >> \/ \A i \in DOMAIN filename : filename[i] # "."
          THEN <<"manual_", ToString(Epoch + seconds)>> \o get_extension_from_url(file_url)
          ELSE filename
          : filename \in {basename(urlparse(file_url).path)} })

\* ThreadPoolExecutor(max_workers=10)
max_workers == 10

\* the calls of add_or_update_file_manually that follow the crawl
MaxManual == 1

\* the URLs given to add_or_update_file_manually
ManualUrls == {f_d, f_xd, f_q}

\* the outcomes of requests.get, raise_for_status and the chunked write: the
\* body is written in full; the request fails or has an error status before
\* the destination is opened; the transfer fails while the body is written
FetchOutcomes == {"ok", "error", "broken"}

\* file links of the site whose server has gone: requests.get raises
DeadList ==
    [n \in 1..max_workers |-> Https(HostA, <<"/", "gone", "/", ToString(n), ".", "pdf">>)]

DeadLinks == {DeadList[n] : n \in DOMAIN DeadList}

\* what the server can answer to the request of url
ServerOutcomes(url) == IF url \in DeadLinks THEN {"error"} ELSE FetchOutcomes

\* a call of save_file_with_metadata(url, save_path)
Attempt(url, filename, by, st) ==
    [url |-> url, save_path |-> save_path_of(filename), by |-> by, st |-> st,
     body |-> "none", metadata |-> << >>, now |-> 0]

(* ---------------------------------------------------------------------- *)
(* Inputs of the utility functions                                        *)
(* ---------------------------------------------------------------------- *)

\* largest number of trailing slashes of an input URL
MaxSlashes == 2

HostAB == <<"a", ".", "com", ".", "b", ".", "org">>

Slashes(n) == [i \in 1..n |-> "/"]

\* scheme and netloc, path, trailing slashes, fragment
UrlInputs ==
    { origin \o path \o Slashes(n) \o frag :
        origin \in {Https(HostA, << >>), Https(HostDocs, << >>), Https(HostB, << >>),
                    Https(HostAB, << >>), <<"http", ":", "/", "/">> \o HostA},
        path \in {<< >>, <<"/", "x">>, <<"/", "d", ".", "pdf">>, <<"/", "x", "/", "y", ".", "PDF">>,
                  <<"/", "e", ".", "png">>, <<"/", "e", ".", "zip">>},
        n \in 0..MaxSlashes,
        frag \in {<< >>, <<"#", "f">>} }

\* the seeds whose base URL is tried
UtilSeeds == {u_root0, Https(HostDocs, <<"/", "x">>)}

\* no utility function was called
NoCall == [fn |-> "none", url |-> << >>, other |-> << >>, base |-> << >>,
           exts |-> {}, seen |-> FALSE, out |-> << >>]

(* ---------------------------------------------------------------------- *)
(* State                                                                  *)
(* ---------------------------------------------------------------------- *)

VARIABLES
    pc,             \* where the main thread is
    start_url,      \* arguments of scrape_and_download / bfs_crawl
    extensions,
    max_pages,
    max_files,
    site,           \* the web site the renderer talks to
    visited_pages,  \* locals of bfs_crawl
    file_links,
    pages_scraped,
    queue,
    rendered,       \* history: the URLs passed to driver.get, with the outcome
    enqueued,       \* history: the entries appended to queue, in order
    attempts,       \* the calls of save_file_with_metadata, in submission order
    count,          \* locals of download_files
    successful_downloads,
    collected,      \* the futures as_completed has yielded
    meta_file,      \* documents/documents_metadata.json
    clock,          \* number of datetime.now() readings so far
    seconds,        \* int(time.time()) - Epoch
    manual_calls,   \* calls of add_or_update_file_manually so far
    serial,         \* history: no two attempts were ever in flight together
    iteration,      \* the order in which the for loop of line 176 yields file_links
    util            \* the call of a utility function: arguments and result

\* what the crawl and the download stage leave alone
inputVars == <<start_url, extensions, max_pages, max_files, site, util>>

crawlVars == <<visited_pages, file_links, pages_scraped, queue, rendered, enqueued>>

downloadVars == <<attempts, count, successful_downloads, collected, meta_file,
                  clock, seconds, manual_calls, serial, iteration>>

vars == <<pc, inputVars, crawlVars, downloadVars>>

\* scrape_and_download after the login, and bfs_crawl up to its while loop
\* (lines 138-145); the documents directory is new
Init ==
    /\ start_url \in Seeds
    /\ extensions \in ExtensionLists
    /\ max_pages \in Quotas
    /\ max_files \in Quotas
    /\ site \in Sites
    /\ pc = "bfs_crawl"
    /\ visited_pages = {clean_url(start_url)}
    /\ file_links = {}
    /\ pages_scraped = 0
    /\ queue = <<start_url>>
    /\ rendered = << >>
    /\ enqueued = <<start_url>>
    /\ attempts = << >>
    /\ count = 0
    /\ successful_downloads = 0
    /\ collected = {}
    /\ meta_file = NoFile
    /\ clock = 0
    /\ seconds = 0
    /\ manual_calls = 0
    /\ serial = TRUE
    /\ iteration = << >>
    /\ util = NoCall

base_url == base_url_of(start_url)

(* ---------------------------------------------------------------------- *)
(* bfs_crawl                                                              *)
(* ---------------------------------------------------------------------- *)

\* the condition of the while loop without its test of pages_scraped
CrawlGuardNoPageQuota ==
    /\ queue # << >>
    /\ Lt(Cardinality(file_links), max_files)

\* the condition of the while loop of bfs_crawl
CrawlGuard ==
    /\ queue # << >>
    /\ Lt(pages_scraped, max_pages)
    /\ Lt(Cardinality(file_links), max_files)

\* the entries the for loop of bfs_crawl appends for new_page_links
NewEntries(new_page_links, visited) ==
    {cleaned_link \in {clean_url(page_link) : page_link \in new_page_links} :
        cleaned_link \notin visited /\ ~is_excluded_file(cleaned_link)}

\* one iteration of the while loop whose dequeued URL is excluded (continue)
CrawlSkip ==
    /\ pc = "bfs_crawl"
    /\ CrawlGuard
    /\ is_excluded_file(Head(queue))
    /\ queue' = Tail(queue)
    /\ UNCHANGED <<pc, inputVars, visited_pages, file_links, pages_scraped,
                   rendered, enqueued, downloadVars>>

\* one iteration of the while loop that renders the dequeued URL; it ends in
\* the break of line 155 or with pages_scraped += 1.  new_page_links is a set:
\* its iteration order, hence the order of the appended entries, is any.
CrawlPage ==
    /\ pc = "bfs_crawl"
    /\ CrawlGuard
    /\ ~is_excluded_file(Head(queue))
    /\ \E outcome \in RenderOutcomes :
       \E r \in {scrape_page_for_links_and_files(Head(queue), base_url, extensions,
                    visited_pages, file_links, Anchors(site, Head(queue)), outcome)} :
          /\ rendered' = Append(rendered, [url |-> Head(queue), ok |-> outcome = "ok"])
          /\ file_links' = file_links \cup r.file_links
          /\ IF Ge(Cardinality(file_links \cup r.file_links), max_files)
             THEN /\ queue' = Tail(queue)
                  /\ pc' = "crawl_return"
                  /\ UNCHANGED <<visited_pages, pages_scraped, enqueued>>
             ELSE \E new \in {NewEntries(r.page_links, visited_pages)} :
                  /\ \E order \in Orders(new) :
                        /\ queue' = Tail(queue) \o order
                        /\ enqueued' = enqueued \o order
                  /\ visited_pages' = visited_pages \cup new
                  /\ pages_scraped' = pages_scraped + 1
                  /\ pc' = pc
    /\ UNCHANGED <<inputVars, downloadVars>>

\* bfs_crawl returns whatever the while condition
CrawlExitEarly ==
    /\ pc = "bfs_crawl"
    /\ pc' = "crawl_return"
    /\ UNCHANGED <<inputVars, crawlVars, downloadVars>>

\* the while condition is false: bfs_crawl falls out of the loop
CrawlExit ==
    /\ pc = "bfs_crawl"
    /\ ~CrawlGuard
    /\ pc' = "crawl_return"
    /\ UNCHANGED <<inputVars, crawlVars, downloadVars>>

(* ---------------------------------------------------------------------- *)
(* download_files                                                         *)
(* ---------------------------------------------------------------------- *)

\* the indices of the attempts the worker pool runs
PoolAttempts == {i \in DOMAIN attempts : attempts[i].by = "pool"}

Submitted == {attempts[i].url : i \in PoolAttempts}

\* an attempt a thread is executing
InFlight(i) == attempts[i].st \in {"get", "written", "loaded", "opened"}

Finished(i) == attempts[i].st \in {"done", "failed"}

\* bfs_crawl returns and scrape_and_download calls download_files, which
\* returns at once when there is no file link (lines 167-172); file_links is
\* a set, which the for loop will iterate in some order
DownloadFiles ==
    /\ pc = "crawl_return"
    /\ pc' = IF file_links = {} THEN "stats" ELSE "submit"
    /\ count' = 0
    /\ successful_downloads' = 0
    /\ \E order \in Orders(file_links) : iteration' = order
    /\ UNCHANGED <<inputVars, crawlVars, attempts, collected, meta_file, clock,
                   seconds, manual_calls, serial>>

\* Submit without the test of count against max_files
SubmitUncapped ==
    /\ pc = "submit"
    /\ count < Len(iteration)
    /\ \E url \in {iteration[count + 1]} :
          attempts' = Append(attempts,
              Attempt(url, download_filename(url, successful_downloads), "pool", "queued"))
    /\ count' = count + 1
    /\ UNCHANGED <<pc, inputVars, crawlVars, successful_downloads, collected,
                   meta_file, clock, seconds, manual_calls, serial, iteration>>

\* one iteration of the submission loop (lines 176-185); count is also the
\* number of links the loop has yielded
Submit ==
    /\ pc = "submit"
    /\ Lt(count, max_files)
    /\ count < Len(iteration)
    /\ \E url \in {iteration[count + 1]} :
          attempts' = Append(attempts,
              Attempt(url, download_filename(url, successful_downloads), "pool", "queued"))
    /\ count' = count + 1
    /\ UNCHANGED <<pc, inputVars, crawlVars, successful_downloads, collected,
                   meta_file, clock, seconds, manual_calls, serial, iteration>>

\* the submission loop ends: file_links is exhausted or count >= max_files
SubmitEnd ==
    /\ pc = "submit"
    /\ count = Len(iteration) \/ Ge(count, max_files)
    /\ pc' = "as_completed"
    /\ UNCHANGED <<inputVars, crawlVars, downloadVars>>

\* as_completed yields a finished future and its result is counted
\* (lines 186-191)
Collect(i) ==
    /\ pc = "as_completed"
    /\ i \in PoolAttempts \ collected
    /\ Finished(i)
    /\ collected' = collected \cup {i}
    /\ successful_downloads' =
          IF attempts[i].st = "done" THEN successful_downloads + 1
          ELSE successful_downloads
    /\ UNCHANGED <<pc, inputVars, crawlVars, attempts, count, meta_file, clock,
                   seconds, manual_calls, serial, iteration>>

\* every future was yielded: the executor shuts down and download_files returns
DownloadReturn ==
    /\ pc = "as_completed"
    /\ collected = PoolAttempts
    /\ pc' = "stats"
    /\ UNCHANGED <<inputVars, crawlVars, downloadVars>>

\* scrape_and_download prints the final stats and returns (lines 282-283)
FinalStats ==
    /\ pc = "stats"
    /\ pc' = "main"
    /\ UNCHANGED <<inputVars, crawlVars, downloadVars>>

(* ---------------------------------------------------------------------- *)
(* save_file_with_metadata                                                *)
(* ---------------------------------------------------------------------- *)

\* Start with as many worker threads as there are attempts
StartUnbounded(i) ==
    /\ i \in PoolAttempts
    /\ attempts[i].st = "queued"
    /\ \A j \in PoolAttempts : j < i => attempts[j].st # "queued"
    /\ attempts' = [attempts EXCEPT ![i].st = "get"]
    /\ serial' = (serial /\ \A j \in DOMAIN attempts : ~InFlight(j))
    /\ UNCHANGED <<pc, inputVars, crawlVars, count, successful_downloads,
                   collected, meta_file, clock, seconds, manual_calls, iteration>>

\* a worker thread of the pool takes the oldest queued attempt from the work
\* queue of the executor (line 183); there are at most max_workers threads,
\* each busy with one attempt until it returns
Start(i) ==
    /\ i \in PoolAttempts
    /\ attempts[i].st = "queued"
    /\ \A j \in PoolAttempts : j < i => attempts[j].st # "queued"
    /\ Cardinality({j \in PoolAttempts : InFlight(j)}) < max_workers
    /\ attempts' = [attempts EXCEPT ![i].st = "get"]
    /\ serial' = (serial /\ \A j \in DOMAIN attempts : ~InFlight(j))
    /\ UNCHANGED <<pc, inputVars, crawlVars, count, successful_downloads,
                   collected, meta_file, clock, seconds, manual_calls, iteration>>

\* Fetch that goes on to the metadata when the transfer broke
FetchIgnoringBreak(i) ==
    /\ i \in DOMAIN attempts
    /\ attempts[i].st = "get"
    /\ \E outcome \in ServerOutcomes(attempts[i].url) :
          attempts' = [attempts EXCEPT
              ![i].st = IF outcome = "error" THEN "failed" ELSE "written",
              ![i].body = CASE outcome = "ok" -> "full"
                            [] outcome = "error" -> "none"
                            [] outcome = "broken" -> "partial"]
    /\ UNCHANGED <<pc, inputVars, crawlVars, count, successful_downloads,
                   collected, meta_file, clock, seconds, manual_calls, serial, iteration>>

\* lines 38-44: the request and the write of the body to save_path
Fetch(i) ==
    /\ i \in DOMAIN attempts
    /\ attempts[i].st = "get"
    /\ \E outcome \in ServerOutcomes(attempts[i].url) :
          attempts' = [attempts EXCEPT
              ![i].st = IF outcome = "ok" THEN "written" ELSE "failed",
              ![i].body = CASE outcome = "ok" -> "full"
                            [] outcome = "error" -> "none"
                            [] outcome = "broken" -> "partial"]
    /\ UNCHANGED <<pc, inputVars, crawlVars, count, successful_downloads,
                   collected, meta_file, clock, seconds, manual_calls, serial, iteration>>

\* lines 46-55: the metadata is loaded, the time is read and the record of
\* the file is created or extended in the loaded copy; an exception of
\* json.load ends the attempt in the except clause
Load(i) ==
    /\ i \in DOMAIN attempts
    /\ attempts[i].st = "written"
    /\ \E loaded \in {load_metadata(meta_file)} :
          IF loaded.raise
          THEN /\ attempts' = [attempts EXCEPT ![i].st = "failed"]
               /\ clock' = clock
          ELSE /\ attempts' = [attempts EXCEPT
                      ![i].st = "loaded",
                      ![i].now = clock + 1,
                      ![i].metadata = upsert(loaded.metadata,
                                             basename(attempts[i].save_path),
                                             attempts[i].url, clock + 1)]
               /\ clock' = clock + 1
    /\ UNCHANGED <<pc, inputVars, crawlVars, count, successful_downloads,
                   collected, meta_file, seconds, manual_calls, serial, iteration>>

\* line 56, save_metadata: the file is opened for writing
SaveOpen(i) ==
    /\ i \in DOMAIN attempts
    /\ attempts[i].st = "loaded"
    /\ meta_file' = save_metadata_open(meta_file)
    /\ attempts' = [attempts EXCEPT ![i].st = "opened"]
    /\ UNCHANGED <<pc, inputVars, crawlVars, count, successful_downloads,
                   collected, clock, seconds, manual_calls, serial, iteration>>

\* line 56-57, save_metadata: the JSON text is written, the file is closed and
\* the attempt returns True
SaveDump(i) ==
    /\ i \in DOMAIN attempts
    /\ attempts[i].st = "opened"
    /\ meta_file' = save_metadata_dump(meta_file, attempts[i].metadata)
    /\ attempts' = [attempts EXCEPT ![i].st = "done", ![i].metadata = << >>]
    /\ UNCHANGED <<pc, inputVars, crawlVars, count, successful_downloads,
                   collected, clock, seconds, manual_calls, serial, iteration>>

(* ---------------------------------------------------------------------- *)
(* add_or_update_file_manually and print_metadata_summary                 *)
(* ---------------------------------------------------------------------- *)

\* add_or_update_file_manually calls save_file_with_metadata in the main
\* thread (lines 286-291); the second of time.time() is the one of the last
\* reading or the next
ManualCall ==
    /\ pc = "main"
    /\ manual_calls < MaxManual
    /\ \E file_url \in ManualUrls :
       \E tick \in IF manual_filename(file_url, 0) = manual_filename(file_url, 1)
                   THEN {0} ELSE {0, 1} :
          /\ seconds' = seconds + tick
          /\ attempts' = Append(attempts,
                Attempt(file_url, manual_filename(file_url, seconds + tick), "main", "get"))
    /\ manual_calls' = manual_calls + 1
    /\ serial' = (serial /\ \A j \in DOMAIN attempts : ~InFlight(j))
    /\ pc' = "manual"
    /\ UNCHANGED <<inputVars, crawlVars, count, successful_downloads, collected,
                   meta_file, clock, iteration>>

\* save_file_with_metadata has returned to add_or_update_file_manually, which
\* prints the result (lines 292-295)
ManualReturn ==
    /\ pc = "manual"
    /\ Finished(Len(attempts))
    /\ pc' = "main"
    /\ UNCHANGED <<inputVars, crawlVars, downloadVars>>

\* print_metadata_summary: load_metadata is not guarded there, an exception
\* of json.load ends the program
Summary ==
    /\ pc = "main"
    /\ pc' = IF load_metadata(meta_file).raise THEN "crashed" ELSE "done"
    /\ UNCHANGED <<inputVars, crawlVars, downloadVars>>

Next ==
    \/ CrawlSkip
    \/ CrawlPage
    \/ CrawlExit
    \/ DownloadFiles
    \/ Submit
    \/ SubmitEnd
    \/ \E i \in DOMAIN attempts : Collect(i)
    \/ DownloadReturn
    \/ FinalStats
    \/ \E i \in DOMAIN attempts : Start(i)
    \/ \E i \in DOMAIN attempts : Fetch(i)
    \/ \E i \in DOMAIN attempts : Load(i)
    \/ \E i \in DOMAIN attempts : SaveOpen(i)
    \/ \E i \in DOMAIN attempts : SaveDump(i)
    \/ ManualCall
    \/ ManualReturn
    \/ Summary

Spec == Init /\ [][Next]_vars

(* ---------------------------------------------------------------------- *)
(* One run of bfs_crawl and download_files, with fair scheduling          *)
(* ---------------------------------------------------------------------- *)

NextRun ==
    \/ CrawlSkip
    \/ CrawlPage
    \/ CrawlExit
    \/ DownloadFiles
    \/ Submit
    \/ SubmitEnd
    \/ \E i \in DOMAIN attempts : Collect(i)
    \/ DownloadReturn
    \/ \E i \in DOMAIN attempts : Start(i)
    \/ \E i \in DOMAIN attempts : Fetch(i)
    \/ \E i \in DOMAIN attempts : Load(i)
    \/ \E i \in DOMAIN attempts : SaveOpen(i)
    \/ \E i \in DOMAIN attempts : SaveDump(i)

\* scrape_and_download up to its final statistics (lines 272-281).  Some
\* thread that can take a step does so in the end: driver.get and
\* WebDriverWait return or raise after their timeouts (lines 106-108),
\* requests.get has a timeout (line 38), and the operating system schedules
\* the threads
SpecRun == Init /\ [][NextRun]_vars /\ WF_vars(NextRun)

(* ---------------------------------------------------------------------- *)
(* download_files on more file links than the pool has threads            *)
(* ---------------------------------------------------------------------- *)

\* the order in which the for loop yields the links: the one link whose
\* server answers comes last, after max_workers links that will fail
PoolOrders == { DeadList \o <<f_d>> }

\* download_files(file_links, max_files) is called (lines 167-173) with
\* max_workers + 1 file links and no quota
InitPool ==
    /\ start_url = u_root0
    /\ extensions = DefaultExtensions
    /\ max_pages = Inf
    /\ max_files = Inf
    /\ site = Site({}, {}, {})
    /\ pc = "submit"
    /\ visited_pages = {clean_url(u_root0)}
    /\ file_links = DeadLinks \cup {f_d}
    /\ pages_scraped = 1
    /\ queue = << >>
    /\ rendered = <<[url |-> u_root0, ok |-> TRUE]>>
    /\ enqueued = <<u_root0>>
    /\ attempts = << >>
    /\ count = 0
    /\ successful_downloads = 0
    /\ collected = {}
    /\ meta_file = NoFile
    /\ clock = 0
    /\ seconds = 0
    /\ manual_calls = 0
    /\ serial = TRUE
    /\ iteration \in PoolOrders
    /\ util = NoCall

NextPool ==
    \/ Submit
    \/ SubmitEnd
    \/ \E i \in DOMAIN attempts : Start(i)
    \/ \E i \in DOMAIN attempts : Fetch(i)
    \/ \E i \in DOMAIN attempts : Load(i)
    \/ \E i \in DOMAIN attempts : SaveOpen(i)
    \/ \E i \in DOMAIN attempts : SaveDump(i)

\* the submission loop and the worker threads, up to the point where the main
\* thread waits in as_completed for the futures: what follows reads the
\* results only.  Some thread that can take a step does so in the end: the worker threads
\* and the main thread are scheduled by the operating system, and
\* requests.get has a timeout (line 38)
SpecPool == InitPool /\ [][NextPool]_vars /\ WF_vars(NextPool)

(* ---------------------------------------------------------------------- *)
(* The utility functions on their own                                     *)
(* ---------------------------------------------------------------------- *)

InitUtil ==
    /\ pc = "utility"
    /\ start_url = << >>
    /\ extensions = {}
    /\ max_pages = 0
    /\ max_files = 0
    /\ site = Site({}, {}, {})
    /\ visited_pages = {}
    /\ file_links = {}
    /\ pages_scraped = 0
    /\ queue = << >>
    /\ rendered = << >>
    /\ enqueued = << >>
    /\ attempts = << >>
    /\ count = 0
    /\ successful_downloads = 0
    /\ collected = {}
    /\ meta_file = NoFile
    /\ clock = 0
    /\ seconds = 0
    /\ manual_calls = 0
    /\ serial = TRUE
    /\ iteration = << >>
    /\ \E url \in UrlInputs : util = [NoCall EXCEPT !.url = url]

\* clean_url(url), and clean_url of what it returned
CallCleanUrl ==
    /\ pc = "utility"
    /\ \/ /\ util.fn = "none"
          /\ util' = [util EXCEPT !.fn = "clean_url", !.out = <<clean_url(util.url)>>]
       \/ /\ util.fn = "clean_url"
          /\ Len(util.out) = 1
          /\ util' = [util EXCEPT !.out = Append(@, clean_url(util.out[1]))]
    /\ UNCHANGED <<pc, start_url, extensions, max_pages, max_files, site,
                   crawlVars, downloadVars>>

\* clean_url on url and on the URL that differs from it only by a fragment
\* (kind "fragment") or only by a trailing slash (kind "slash")
CallCleanUrlPair(kind) ==
    /\ pc = "utility"
    /\ util.fn = "none"
    /\ \A i \in DOMAIN util.url : util.url[i] \notin {"#", "?"}
    /\ \E other \in {util.url \o (IF kind = "slash" THEN <<"/">> ELSE <<"#", "f">>)} :
          util' = [util EXCEPT !.fn = kind, !.other = other,
                               !.out = <<clean_url(util.url), clean_url(other)>>]
    /\ UNCHANGED <<pc, start_url, extensions, max_pages, max_files, site,
                   crawlVars, downloadVars>>

\* the loop body of scrape_page_for_links_and_files on the link url of a page
\* of the crawl of seed; seen tells whether the cleaned link is in
\* old_visited_pages already
CallClassify ==
    /\ pc = "utility"
    /\ util.fn = "none"
    /\ \E seed \in UtilSeeds, exts \in ExtensionLists, seen \in BOOLEAN :
       \E c \in {clean_url(urljoin(seed, util.url))} :
          util' = [util EXCEPT
              !.fn = "classify", !.base = base_url_of(seed), !.exts = exts,
              !.seen = seen, !.other = c,
              !.out = <<classify(c, base_url_of(seed), exts,
                                 IF seen THEN {c} ELSE {}, {})>>]
    /\ UNCHANGED <<pc, start_url, extensions, max_pages, max_files, site,
                   crawlVars, downloadVars>>

NextUtil ==
    \/ CallCleanUrl
    \/ CallCleanUrlPair("fragment")
    \/ CallCleanUrlPair("slash")
    \/ CallClassify

SpecUtil == InitUtil /\ [][NextUtil]_vars

(* ---------------------------------------------------------------------- *)
(* Properties of the utility functions (checked under SpecUtil)           *)
(* ---------------------------------------------------------------------- *)

\* C3: canonicalisation is idempotent: clean_url applied to a URL that
\* clean_url returned gives that URL back, whatever the number of trailing
\* slashes and the fragment of the original URL.
CleanUrlIdempotent ==
    (util.fn = "clean_url" /\ Len(util.out) = 2) => util.out[2] = util.out[1]

\* C4: two URLs that differ only by a fragment, or only by a trailing slash,
\* have the same canonical URL.
CleanUrlMergesVariants ==
    util.fn \in {"fragment", "slash"} => util.out[1] = util.out[2]

\* File, Page or Ignored: the three classes of the link classifier
Kind(class) == IF class \in {"File", "Page"} THEN class ELSE "Ignored"

\* the decision order of the link classifier as the specification words it
SpecClass(url, base, exts) ==
    IF is_valid_file_extension(url, exts) THEN "File"
    ELSE IF is_excluded_file(url) THEN "Ignored"
    ELSE IF StartsWith(url, base) THEN "Page"
    ELSE "Ignored"

\* C10 as claimed: a link not seen before is File when it matches the
\* allow-list, else Ignored when it matches the exclusion list, else Page when
\* it starts with the base URL, else Ignored, whatever its host.
ClassifierClaimedOrder ==
    (util.fn = "classify" /\ ~util.seen)
        => Kind(util.out[1]) = SpecClass(util.other, util.base, util.exts)

\* C10 as amended: a link not seen before whose host is outside the domain
\* scope of the seed is Ignored; a link in scope is File when it matches the
\* allow-list, else Ignored when it matches the exclusion list, else Page when
\* it starts with the base URL, else Ignored.
ClassifierScopedOrder ==
    (util.fn = "classify" /\ ~util.seen)
        => Kind(util.out[1]) =
              IF is_same_domain(util.base, util.other)
              THEN SpecClass(util.other, util.base, util.exts)
              ELSE "Ignored"

\* C10 witness: a link in scope that does not start with the base URL is
\* classified File by its extension
FileWithoutBasePrefix ==
    /\ util.fn = "classify"
    /\ ~util.seen
    /\ util.out = <<"File">>
    /\ ~StartsWith(util.other, util.base)

(* ---------------------------------------------------------------------- *)
(* Properties of the crawl and of the download stage (checked under Spec) *)
(* ---------------------------------------------------------------------- *)

\* bfs_crawl has returned
Crawled == pc \notin {"bfs_crawl", "utility"}

\* C1: during one run of bfs_crawl no canonical URL is passed to the page
\* renderer more than once (no two rendered URLs have the same clean_url), and
\* the pages_scraped returned is at most max_pages.
CrawlVisitsOnce ==
    /\ \A i, j \in DOMAIN rendered :
          i # j => clean_url(rendered[i].url) # clean_url(rendered[j].url)
    /\ Crawled => (max_pages = Inf \/ pages_scraped <= max_pages)

\* C8: a failed page load (timeout or error) is not fatal: the step leaves
\* file_links and visited_pages as they were, removes only the failed entry
\* from the frontier, counts the page and stays in the loop; in the end-to-end
\* scenario with a failure on /x the crawl returns pages_scraped >= 1 and
\* file_links = {d.pdf}.
RenderFailureNotFatal ==
    /\ []((/\ Crawled
           /\ start_url = u_root0
           /\ site = Site({u_x, f_d}, {u_root0, f_e}, {})
           /\ rendered = <<[url |-> u_root0, ok |-> TRUE], [url |-> u_x, ok |-> FALSE]>>)
          => (pages_scraped >= 1 /\ file_links = {f_d}))
    /\ [][(/\ Len(rendered') = Len(rendered) + 1
           /\ ~rendered'[Len(rendered')].ok)
          => (/\ pc' = "bfs_crawl"
              /\ file_links' = file_links
              /\ visited_pages' = visited_pages
              /\ queue' = Tail(queue)
              /\ pages_scraped' = pages_scraped + 1)]_vars

\* C8 witness: a page load failed and the crawl rendered the next frontier
\* entry, with a file link collected before the failure still there
CrawlWentOnAfterFailure ==
    \E i \in DOMAIN rendered :
        /\ ~rendered[i].ok
        /\ i < Len(rendered)
        /\ rendered[i + 1].ok

\* the links of the document served for page that a first visit classifies as cl
LinksOfClass(page, cl) ==
    {c \in {clean_url(urljoin(page, href)) : href \in Anchors(site, page)} :
        classify(c, base_url, extensions, {}, {}) = cl}

\* the canonical page URLs reachable from those of pages through page links
RECURSIVE Reach(_)
Reach(pages) ==
    The({ IF more \subseteq pages THEN pages ELSE Reach(pages \cup more)
          : more \in {UNION {LinksOfClass(p, "Page") : p \in pages}} })

\* bfs_crawl ended because the frontier drained, without failure of the renderer
Completed ==
    /\ Crawled
    /\ queue = << >>
    /\ Lt(pages_scraped, max_pages)
    /\ Lt(Cardinality(file_links), max_files)
    /\ \A i \in DOMAIN rendered : rendered[i].ok

\* the key of the metadata record of attempt i
FileKey(i) == basename(attempts[i].save_path)

\* C9: when bfs_crawl ends Completed from a seed that is not an excluded
\* file, pages_scraped is the number of canonical page URLs reachable from the
\* seed and file_links is the set of the file URLs linked from them; in the
\* end-to-end scenario pages_scraped = 2, file_links = {d.pdf, e.pdf} and,
\* after a download stage whose two attempts succeeded, the metadata has two
\* records with one timestamp each.
CompletedCrawlIsExact ==
    /\ (Completed /\ ~is_excluded_file(start_url))
          => /\ pages_scraped = Cardinality(Reach({clean_url(start_url)}))
             /\ file_links = UNION {LinksOfClass(p, "File") : p \in Reach({clean_url(start_url)})}
    /\ (/\ Completed
        /\ start_url = u_root0
        /\ site = Site({u_x, f_d}, {u_root0, f_e}, {}))
          => /\ pages_scraped = 2
             /\ file_links = {f_d, f_e}
             /\ (pc = "stats" /\ \A i \in DOMAIN attempts : attempts[i].st = "done")
                   => /\ meta_file.valid
                      /\ DOMAIN meta_file.data = {basename(urlparse(f_d).path), basename(urlparse(f_e).path)}
                      /\ \A k \in DOMAIN meta_file.data : Len(meta_file.data[k].update_history) = 1

\* no attempt is queued or in flight
Quiet == \A i \in DOMAIN attempts : Finished(i)

\* the attempts that returned True with the key k
Successes(k) == {i \in DOMAIN attempts : attempts[i].st = "done" /\ FileKey(i) = k}

\* C2: metadata upserts are atomic: once all the attempts have finished, the
\* metadata file holds, for every attempt that returned success, the
\* timestamp of that attempt under its filename key, with one history entry
\* per successful attempt.
UpsertsAreAtomic ==
    (Quiet /\ pc \in {"stats", "main", "done", "crashed"})
        => \A i \in DOMAIN attempts :
              attempts[i].st = "done"
                 => /\ meta_file.valid
                    /\ FileKey(i) \in DOMAIN meta_file.data
                    /\ \E n \in DOMAIN meta_file.data[FileKey(i)].update_history :
                          meta_file.data[FileKey(i)].update_history[n] = attempts[i].now
                    /\ Len(meta_file.data[FileKey(i)].update_history)
                          = Cardinality(Successes(FileKey(i)))

\* C5: every timestamp of a record of the metadata file is the one of an
\* attempt with that key that had written its body in full before; and a step
\* in which an attempt fails before or during the write of the body leaves
\* the metadata file as it was.
RecordOnlyAfterFullWrite ==
    /\ [](\A k \in DOMAIN meta_file.data :
            \A n \in DOMAIN meta_file.data[k].update_history :
               \E i \in DOMAIN attempts :
                  /\ attempts[i].now = meta_file.data[k].update_history[n]
                  /\ FileKey(i) = k
                  /\ attempts[i].body = "full"
                  /\ attempts[i].st \in {"opened", "done"})
    /\ [][\A i \in DOMAIN attempts :
            (attempts[i].st = "get" /\ attempts'[i].st = "failed")
               => meta_file' = meta_file]_vars

\* C5 witness: an attempt failed while its body was written, with a record
\* in the metadata file, and no record bears its key
BrokenTransferLeftNoRecord ==
    \E i \in DOMAIN attempts :
        /\ attempts[i].st = "failed"
        /\ attempts[i].body = "partial"
        /\ meta_file.valid
        /\ DOMAIN meta_file.data # {}
        /\ FileKey(i) \notin DOMAIN meta_file.data

\* C6: when the attempts ran one after the other, each filename with n >= 1
\* successful attempts has one record whose update_history is the n
\* timestamps of these attempts in the order they completed, and a filename
\* without successful attempt has no record.
SerialDownloadsAppend ==
    (serial /\ Quiet)
        => \A j \in DOMAIN attempts :
              \E k \in {FileKey(j)} :
                 IF Successes(k) = {}
                 THEN k \notin DOMAIN meta_file.data
                 ELSE /\ meta_file.valid
                      /\ k \in DOMAIN meta_file.data
                      /\ \E h \in {meta_file.data[k].update_history} :
                            /\ Len(h) = Cardinality(Successes(k))
                            /\ {h[n] : n \in DOMAIN h} = {attempts[i].now : i \in Successes(k)}
                            /\ \A m, n \in DOMAIN h : m < n => h[m] < h[n]

\* C6 witness: two successive successful downloads to one filename, one by
\* download_files and one by add_or_update_file_manually
TwoSerialDownloadsOfOneFile ==
    /\ serial
    /\ Quiet
    /\ \E i, j \in DOMAIN attempts :
          /\ attempts[i].by = "pool"
          /\ attempts[j].by = "main"
          /\ attempts[i].st = "done"
          /\ attempts[j].st = "done"
          /\ FileKey(i) = FileKey(j)
          /\ Len(meta_file.data[FileKey(i)].update_history) >= 2

\* min(n, q) for a quota q that may be float('inf')
MinQuota(n, q) == IF Lt(n, q) THEN n ELSE q

\* C7: download_files submits at most max_files attempts, and exactly
\* min(len(file_links), max_files) once the submission loop has ended, all of
\* them run by the time it returns; with max_files = 0 the crawl collects no
\* file link, no attempt is made and no success is counted.
DownloadsAreCapped ==
    /\ max_files # Inf => Cardinality(PoolAttempts) <= max_files
    /\ pc \in {"as_completed", "stats", "main", "manual", "done", "crashed"}
          => Cardinality(PoolAttempts) = MinQuota(Cardinality(file_links), max_files)
    /\ pc \in {"stats", "main", "manual", "done", "crashed"}
          => \A i \in PoolAttempts : Finished(i)
    /\ max_files = 0
          => (file_links = {} /\ PoolAttempts = {} /\ successful_downloads = 0)

\* C7 witness: download_files returned after it had made max_files attempts
\* for more than max_files file links
FewerDownloadsThanLinks ==
    /\ pc = "stats"
    /\ max_files # Inf
    /\ max_files >= 1
    /\ Cardinality(file_links) > max_files
    /\ Cardinality(PoolAttempts) = max_files

\* the pool attempts whose filename download_files made up (line 181): the
\* basename of the path of the URL is empty or has no '.'
Synthesized ==
    {i \in PoolAttempts :
        \E filename \in {basename(urlparse(attempts[i].url).path)} :
            filename = << >> \/ \A n \in DOMAIN filename : filename[n] # "."}

\* C11: the filenames document_<n><ext> that download_files makes up for
\* successive URLs without a usable basename carry successive values of <n>:
\* of two such attempts submitted one after the other, the second has the
\* number of the first plus one.
SynthesizedNamesCount ==
    \A i, j \in Synthesized :
        (i < j /\ \A k \in Synthesized : ~(i < k /\ k < j))
           => \E n \in 0..Len(attempts) :
                 /\ attempts[i].save_path = save_path_of(download_filename(attempts[i].url, n))
                 /\ attempts[j].save_path = save_path_of(download_filename(attempts[j].url, n + 1))

\* C12: while download_files runs at most 10 attempts are in flight at once,
\* whatever the number of links submitted; every submitted attempt is taken
\* by a worker in the end; and the step in which an attempt fails leaves
\* every other attempt as it was, so that those go on and finish.
PoolIsBounded ==
    /\ [](Cardinality({i \in PoolAttempts : InFlight(i)}) <= 10)
    /\ []<>(\A i \in PoolAttempts : attempts[i].st # "queued")
    /\ []<>(\A i \in PoolAttempts : Finished(i))
    /\ [][\A i \in DOMAIN attempts :
            (attempts[i].st # "failed" /\ attempts'[i].st = "failed")
               => \A j \in DOMAIN attempts : j # i => attempts'[j] = attempts[j]]_vars

\* C12 witness: ten attempts are in flight and an eleventh attempt waits in
\* the queue of the executor
PoolSaturated ==
    /\ Cardinality({i \in PoolAttempts : InFlight(i)}) = 10
    /\ \E i \in PoolAttempts : attempts[i].st = "queued"

\* C13: bfs_crawl stops as soon as a quota is met: once len(file_links) is
\* max_files or more, or pages_scraped is max_pages or more, no page is
\* rendered any more and file_links does not change; a page is rendered only
\* while len(file_links) < max_files, so that file_links goes beyond max_files
\* only by the links found on the last page processed.
CrawlStopsAtQuota ==
    /\ [][(Ge(Cardinality(file_links), max_files) \/ Ge(pages_scraped, max_pages))
             => (rendered' = rendered /\ file_links' = file_links)]_vars
    /\ [][rendered' # rendered
             => /\ Lt(Cardinality(file_links), max_files)
                /\ Lt(pages_scraped, max_pages)
                /\ file_links' \ file_links \subseteq
                      LinksOfClass(clean_url(Head(queue)), "File")
                         \cup LinksOfClass(Head(queue), "File")]_vars

\* C13 witness: bfs_crawl returned with more file links than max_files, all
\* of them found on the one page it rendered
CrawlOvershotFileQuota ==
    /\ Crawled
    /\ max_files >= 1
    /\ Cardinality(file_links) > max_files
    /\ Len(rendered) = 1

\* the entries bfs_crawl appends for the page links of page when nothing was
\* visited before: the links from page in the link graph of the site
Yields(page) == NewEntries(LinksOfClass(page, "Page"), {})

\* the URLs at most k links away from start_url
RECURSIVE Within(_)
Within(k) ==
    IF k = 0 THEN {start_url}
    ELSE The({ near \cup UNION {Yields(page) : page \in near} : near \in {Within(k - 1)} })

\* Within(k) for every k up to the number of entries the queue ever had
Layers == [k \in 0..Len(enqueued) |-> Within(k)]

\* the link distance of url from start_url, given the layers
Distance(layers, url) ==
    CHOOSE k \in DOMAIN layers : url \in layers[k] /\ (k = 0 \/ url \notin layers[k - 1])

\* the entries taken from the queue so far, in order
Dequeued == SubSeq(enqueued, 1, Len(enqueued) - Len(queue))

\* the entry is rendered when it is taken from the queue (lines 148-149)
IsRendered(entry) == ~is_excluded_file(entry)

\* C14: the queue is first in, first out and every entry is taken from it
\* once: it holds the entries appended last, in their order, and the pages
\* rendered are the entries taken before, in their order; consequently a
\* page is rendered only after every rendered page that is fewer links away
\* from the seed: no page rendered before it is farther from the seed.
BreadthFirstOrder ==
    /\ [](pc = "bfs_crawl" =>
            /\ queue = SubSeq(enqueued, Len(enqueued) - Len(queue) + 1, Len(enqueued))
            /\ \E taken \in {SelectSeq(Dequeued, IsRendered)} :
                  /\ Len(taken) = Len(rendered)
                  /\ \A n \in DOMAIN rendered : rendered[n].url = taken[n])
    /\ [][rendered' # rendered =>
            \E layers \in {Layers} :
               \A m \in DOMAIN rendered :
                  Distance(layers, rendered[m].url) <= Distance(layers, Head(queue))]_vars

\* C15: every entry of the queue of bfs_crawl is a canonical URL, that is a
\* fixed point of clean_url, and is a member of visited_pages, from the
\* start of the loop on and after every append.
FrontierIsCanonical ==
    pc = "bfs_crawl"
       => \A n \in DOMAIN queue :
             /\ clean_url(queue[n]) = queue[n]
             /\ queue[n] \in visited_pages

\* C16: every URL bfs_crawl puts into file_links, every entry it appends to
\* the queue after the seed and every URL download_files requests is in the
\* domain scope of the seed according to is_same_domain: the netlocs are
\* equal or one is a dot-suffix of the other.
CrawlStaysInScope ==
    /\ \A url \in file_links : is_same_domain(start_url, url)
    /\ \A n \in DOMAIN enqueued : n > 1 => is_same_domain(start_url, enqueued[n])
    /\ \A i \in PoolAttempts : is_same_domain(start_url, attempts[i].url)

\* C16 witness: a page with a document link to another domain was rendered,
\* the crawl collected a document of the seed's domain, and download_files
\* has returned
OtherDomainLinkWasLeftOut ==
    /\ pc = "stats"
    /\ file_links # {}
    /\ PoolAttempts # {}
    /\ \E n \in DOMAIN rendered :
          rendered[n].ok /\ f_b \in Anchors(site, rendered[n].url)

\* C17: bfs_crawl terminates, also without quotas and with renderer failures
\* and link cycles, and it returns only when the queue is empty or a quota
\* is met; download_files returns only when every attempt it submitted has
\* returned, and then it does return.
RunTerminates ==
    /\ <>(pc # "bfs_crawl")
    /\ [][(pc = "bfs_crawl" /\ pc' # "bfs_crawl")
             => \/ queue' = << >>
                \/ Ge(Cardinality(file_links'), max_files)
                \/ Ge(pages_scraped', max_pages)]_vars
    /\ [][(pc = "as_completed" /\ pc' # "as_completed")
             => \A i \in PoolAttempts : Finished(i)]_vars
    /\ <>(pc = "stats")

\* C17 witness: a run without quotas on a site with a link cycle, in which a
\* page load failed, has returned from bfs_crawl and from download_files
UnboundedRunReturned ==
    /\ pc = "stats"
    /\ max_pages = Inf
    /\ max_files = Inf
    /\ Len(rendered) >= 2
    /\ \E n \in DOMAIN rendered : ~rendered[n].ok
    /\ \E n \in DOMAIN rendered :
          rendered[n].ok /\ u_root0 \in Anchors(site, rendered[n].url)
    /\ PoolAttempts # {}

\* C18: the pages_scraped that bfs_crawl returns is the number of pages it
\* passed to the page renderer, also when the run ends by the file quota.
PagesScrapedCountsRenders ==
    Crawled => pages_scraped = Len(rendered)

\* the successful attempts with key k whose timestamp is the earliest
FirstSuccesses(k) ==
    {i \in Successes(k) : \A j \in Successes(k) : attempts[i].now <= attempts[j].now}

\* C19: the url of a metadata record is the one of the download that created
\* the record and never changes: once the attempts have returned, the record
\* of a filename bears the URL of the first successful download to that
\* filename, whatever URLs later downloads to the same filename had, and the
\* record of every other successful download is still there.
RecordUrlIsFixed ==
    (Quiet /\ meta_file.valid)
        => \A i \in DOMAIN attempts :
              attempts[i].st = "done"
                 => /\ FileKey(i) \in DOMAIN meta_file.data
                    /\ i \in FirstSuccesses(FileKey(i))
                          => meta_file.data[FileKey(i)].url = attempts[i].url

====
